---------------------------- MODULE Spec2Model ----------------------------
(***************************************************************************)
(* Fleet Commander admin service: the Phial request router (phial.py) and  *)
(* the session / profile-store handlers of AdminService (admin.py).        *)
(*                                                                         *)
(* Two specifications share the variables:                                 *)
(*   SpecRouter  AppRouter.add / AppRouter.find on arbitrary route tables  *)
(*   Spec        the AdminService handlers, one request at a time          *)
(***************************************************************************)
EXTENDS Integers, Sequences, FiniteSets, TLC

VARIABLES
    routes,             \* AppRouter.routes: the compiled route table
    find_request,       \* the request last handed to AppRouter.find
    find_result,        \* what AppRouter.find returned for it
    current_session,    \* AdminService.current_session (a dict)
    collectors_by_name, \* AdminService.collectors_by_name (a dict)
    vnc_websocket,      \* the VNC websocket proxy: running, target_host, target_port
    index_file,         \* <profiles_dir>/index.json: absent, or a list of summaries
    profile_files,      \* <profiles_dir>/<uid>.json: uid -> profile
    uuid_clock,         \* number of uuid1() values drawn so far
    request,            \* the request being answered: handler and arguments
    response,           \* what the handler returned (or that it raised)
    threads,            \* per server thread: the handler it is inside and its locals
    overlapped          \* a request was begun while another one was in progress

vars == <<routes, find_request, find_result, current_session, collectors_by_name,
          vnc_websocket, index_file, profile_files, uuid_clock, request, response,
          threads, overlapped>>

routerVars == <<routes, find_request, find_result>>

threadVars == <<threads, overlapped>>

adminVars == <<current_session, collectors_by_name, vnc_websocket, index_file,
               profile_files, uuid_clock, request, response, threadVars>>

None == "None"

Max(S) == CHOOSE x \in S : \A y \in S : y <= x

(***************************************************************************)
(* Bounds                                                                  *)
(***************************************************************************)
MaxRoutes == 2

MaxPathLen == 2

(***************************************************************************)
(* Regular expressions as the route patterns use them.  A path is a        *)
(* sequence of characters; a pattern is a sequence of elements:            *)
(*   bol   ^                    lit   one literal character                *)
(*   eol   $                    grp   (?P<name>[cls]+), greedy             *)
(***************************************************************************)
Bol == [k |-> "bol", c |-> "", name |-> "", cls |-> {}]

Eol == [k |-> "eol", c |-> "", name |-> "", cls |-> {}]

Lit(ch) == [k |-> "lit", c |-> ch, name |-> "", cls |-> {}]

Grp(n, chars) == [k |-> "grp", c |-> "", name |-> n, cls |-> chars]

NoMatch == [ok |-> FALSE, groups |-> {}]

\* The longest run of characters of cls in path starting at j.
RECURSIVE RunLen(_, _, _)
RunLen(path, j, cls) ==
    IF j <= Len(path) /\ path[j] \in cls THEN 1 + RunLen(path, j + 1, cls) ELSE 0

\* Backtracking match of pat[i..] against path[j..]; a group tries its longest
\* run first.  The result carries the named groups as a set of <<name, value>>.
RECURSIVE MatchFrom(_, _, _, _)
MatchFrom(pat, i, path, j) ==
    IF i > Len(pat) THEN [ok |-> TRUE, groups |-> {}]
    ELSE LET e == pat[i] IN
      CASE e.k = "bol" -> IF j = 1 THEN MatchFrom(pat, i + 1, path, j) ELSE NoMatch
        [] e.k = "eol" ->
             IF \/ j = Len(path) + 1
                \/ (j = Len(path) /\ path[j] = "\n")
             THEN MatchFrom(pat, i + 1, path, j) ELSE NoMatch
        [] e.k = "lit" ->
             IF j <= Len(path) /\ path[j] = e.c
             THEN MatchFrom(pat, i + 1, path, j + 1) ELSE NoMatch
        [] e.k = "grp" ->
             LET lens == {n \in 1..RunLen(path, j, e.cls) :
                             MatchFrom(pat, i + 1, path, j + n).ok}
             IN IF lens = {} THEN NoMatch
                ELSE LET n == Max(lens)
                         rest == MatchFrom(pat, i + 1, path, j + n)
                     IN [ok |-> TRUE,
                         groups |-> {<<e.name, SubSeq(path, j, j + n - 1)>>}
                                        \cup rest.groups]

\* pattern.match(path): anchored at the start of path, not at its end.
match(pat, path) == MatchFrom(pat, 1, path, 1)

(***************************************************************************)
(* AppRouter                                                               *)
(***************************************************************************)
\* AppRouter.find with the loop position made explicit.
RECURSIVE FindFrom(_, _, _)
FindFrom(rts, req, i) ==
    IF i > Len(rts) THEN [handler |-> None, parms |-> {}, code |-> 404]
    ELSE LET matches == match(rts[i].pattern, req.path) IN
         IF matches.ok
         THEN IF req.method \notin rts[i].methods
              THEN [handler |-> None, parms |-> {}, code |-> 405]
              ELSE [handler |-> rts[i].handler, parms |-> matches.groups, code |-> 0]
         ELSE FindFrom(rts, req, i + 1)

\* The same loop with a method mismatch falling through to the next route.
RECURSIVE FindFallThrough(_, _, _)
FindFallThrough(rts, req, i) ==
    IF i > Len(rts) THEN [handler |-> None, parms |-> {}, code |-> 404]
    ELSE LET matches == match(rts[i].pattern, req.path) IN
         IF matches.ok /\ req.method \in rts[i].methods
         THEN [handler |-> rts[i].handler, parms |-> matches.groups, code |-> 0]
         ELSE FindFallThrough(rts, req, i + 1)

find_mutant(rts, req) == FindFallThrough(rts, req, 1)

find(rts, req) == FindFrom(rts, req, 1)

\* Inputs of the router specification.
Chars == {"a", "/"}

Word == {"a"}

Methods == {"GET", "POST"}

Paths == UNION {[1..n -> Chars] : n \in 0..MaxPathLen}

RoutePatterns ==
    { <<Bol, Lit("a")>>,                                  \* ^a
      <<Bol, Grp("x", Word), Lit("/"), Eol>>,             \* ^(?P<x>[a]+)/$
      <<Bol, Grp("p", Chars), Eol>> }                     \* ^(?P<p>.+)$

\* Every pattern with handler h1, and ^a a second time with handler h2.
RouteSet ==
    [pattern : RoutePatterns, methods : {{"GET"}, {"GET", "POST"}}, handler : {"h1"}]
        \cup [pattern : {<<Bol, Lit("a")>>}, methods : {{"GET"}, {"GET", "POST"}},
              handler : {"h2"}]

NoRequest == [method |-> None, path |-> <<>>]

NoResult == [handler |-> None, parms |-> {}, code |-> 0]

(***************************************************************************)
(* Python dicts: a function whose domain is the set of keys present.       *)
(***************************************************************************)
EmptyDict == [k \in {} |-> None]

Has(d, k) == k \in DOMAIN d

Put(d, k, v) == [x \in DOMAIN d \cup {k} |-> IF x = k THEN v ELSE d[x]]

Del(d, k) == [x \in DOMAIN d \ {k} |-> d[x]]

(***************************************************************************)
(* Bounds and inputs of the handler specification                          *)
(***************************************************************************)
MaxUid == 2          \* uuid1() values drawn in one run

MaxChanges == 1      \* changes one collector captures

MaxIdLen == 2        \* characters of an identifier put in a URL

MaxIndexLen == 3     \* entries of an index.json found on disk

Ids == 1..MaxUid     \* the <id>/<uid> path parameter; a uuid is the decimal
                     \* string of an integer, written here as that integer

Hosts == {"", "h1", "h2"}

Changes == {"c1"}

GSETTINGS == "org.gnome.gsettings"

GOA == "org.gnome.online-accounts"

Namespaces == {GSETTINGS, GOA, "org.example.other"}

\* A request body: the raw content either decodes to a JSON value or does not.
\* A decoded value is tagged with its Python type.
InvalidBody == [valid |-> FALSE, t |-> "none", v |-> EmptyDict]

Dict(d) == [valid |-> TRUE, t |-> "dict", v |-> d]

List(l) == [valid |-> TRUE, t |-> "list", v |-> l]

Falsy(data) == (data.t = "dict" /\ DOMAIN data.v = {}) \/ (data.t = "list" /\ data.v = <<>>)

StartBodies ==
    {InvalidBody, Dict(EmptyDict), Dict([port |-> "8182"])}
        \cup {Dict([host |-> h]) : h \in Hosts}

SelLists == {<<>>, <<"0">>, <<"x">>}

SelectBodies ==
    {InvalidBody, List(<<>>), Dict(EmptyDict)} \cup {Dict([sel |-> l]) : l \in SelLists}

GroupStrings == { <<"g", ",", " ">> }            \* "g, "

UserStrings == { <<"u">> }                        \* "u"

SaveBodies ==
    {InvalidBody, List(<<>>), Dict([groups |-> <<>>, users |-> <<>>])}
        \cup {Dict([groups |-> g, users |-> u]
                   @@ ("profile-name" :> n) @@ ("profile-desc" :> "d1")) :
                 n \in {"n1"}, g \in GroupStrings, u \in UserStrings}

\* Outcomes of requests.get() on the remote host, and of the local file writes.
RemoteStartOutcomes == {"ok", "error", "unreachable", "raise"}

\* requests.get on "http://:8182/session/start" raises InvalidURL.
StartOutcomes(host) == IF host = "" THEN {"raise"} ELSE RemoteStartOutcomes

RemoteStopOutcomes == {"ok", "error", "unreachable", "notjson", "raise"}

DiskOutcomes == {"ok", "fail_create_index", "fail_profile", "fail_index"}

\* The index is created only when it does not exist yet.
SaveOutcomes(idx) == IF idx.exists THEN DiskOutcomes \ {"fail_create_index"} ELSE DiskOutcomes

(***************************************************************************)
(* Request.get_json and JSONResponse: used by admin.py, not defined in     *)
(* this phial.py; taken from the Request/Response model of the             *)
(* specification (body JSON-decoded on demand; status, content).           *)
(***************************************************************************)
JSONResponse(msg, status) ==
    [kind |-> "JSONResponse", status |-> status, msg |-> msg, uuid |-> 0, changes |-> <<>>]

\* A (body, status) tuple, as profiles_save returns on its guards.
TupleResult(msg, status) ==
    [kind |-> "tuple", status |-> status, msg |-> msg, uuid |-> 0, changes |-> <<>>]

\* The handler raised: the exception leaves the handler.
Raised(what) ==
    [kind |-> "raise", status |-> 0, msg |-> what, uuid |-> 0, changes |-> <<>>]

NoResponse == [kind |-> "none", status |-> 0, msg |-> "", uuid |-> 0, changes |-> <<>>]

Req(h, id, name, body) == [handler |-> h, id |-> id, name |-> name, body |-> body]

NoReq == Req(None, 0, "", InvalidBody)

(***************************************************************************)
(* Collectors (collectors.py is not part of the sources): the capability   *)
(* contract of the specification, section 4.3.                             *)
(***************************************************************************)
NewCollector == [changes |-> <<>>, selected |-> {}]

handle_change(c, change) == [c EXCEPT !.changes = Append(@, change)]

dump_changes(c) == c.changes

remember_selected(c, indices) == [c EXCEPT !.selected = indices]

\* The remembered changes, by 0-based index, in capture order.
RECURSIVE ExportFrom(_, _)
ExportFrom(c, i) ==
    IF i > Len(c.changes) THEN <<>>
    ELSE (IF (i - 1) \in c.selected THEN <<c.changes[i]>> ELSE <<>>)
             \o ExportFrom(c, i + 1)

get_settings(c) == ExportFrom(c, 1)

\* int(x) for an element of data['sel'].
IsInt(x) == x \in {"0", "1", "2"}

ParseInt(x) == CASE x = "0" -> 0 [] x = "1" -> 1 [] x = "2" -> 2

(***************************************************************************)
(* String helpers of profiles_save: s.split(","), s.strip(), filter(None,.)*)
(***************************************************************************)
RECURSIVE SplitFrom(_, _, _)
SplitFrom(s, i, cur) ==
    IF i > Len(s) THEN <<cur>>
    ELSE IF s[i] = "," THEN <<cur>> \o SplitFrom(s, i + 1, <<>>)
    ELSE SplitFrom(s, i + 1, Append(cur, s[i]))

split(s) == SplitFrom(s, 1, <<>>)

RECURSIVE strip(_)
strip(s) ==
    IF s = <<>> THEN s
    ELSE IF Head(s) = " " THEN strip(Tail(s))
    ELSE IF s[Len(s)] = " " THEN strip(SubSeq(s, 1, Len(s) - 1))
    ELSE s

RECURSIVE filter_none(_)
filter_none(l) ==
    IF l = <<>> THEN <<>>
    ELSE (IF Head(l) = <<>> THEN <<>> ELSE <<Head(l)>>) \o filter_none(Tail(l))

applies_to(str) == filter_none([i \in 1..Len(split(str)) |-> strip(split(str)[i])])

(***************************************************************************)
(* Session state                                                           *)
(***************************************************************************)
\* current_session.get('host', None) is truthy.
HostSet(cs) == Has(cs, "host") /\ cs.host # ""

\* `not uid or uid != id`: a uuid string is never empty.
UidMismatch(cs, id) == ~Has(cs, "uid") \/ cs.uid # id

\* `not changeset`: absent, or an empty dict.
NoChangeset(cs) == ~Has(cs, "changeset") \/ DOMAIN cs.changeset = {}

\* Lines 96-99 of profiles_save.
save_guard(cs, id) ==
    IF UidMismatch(cs, id) THEN "nonexistinguid"
    ELSE IF NoChangeset(cs) THEN "no changeset"
    ELSE "pass"

\* Assigning only the 'host' key, keeping the rest of the dict.
start_session_mutant(cs, host) == Put(cs, "host", host)

\* self.current_session = {'host': data['host']}: a new dict with the host alone.
start_session(cs, host) == Put(EmptyDict, "host", host)

\* A start that does not look at the current host.
already_started_mutant(cs) == FALSE

\* if self.current_session.get('host', None): "session already started".
already_started(cs) == HostSet(cs)

\* A freeze that leaves the live registry in place.
freeze_mutant(cs, colls, uid) ==
    [session |-> Put(Put(cs, "uid", uid), "changeset", colls), collectors |-> colls]

\* Lines 198-200 of changes_select: the registry is copied into the session
\* under a fresh uid and the live registry is cleared.
freeze(cs, colls, uid) ==
    [session |-> Put(Put(cs, "uid", uid), "changeset", colls), collectors |-> EmptyDict]

\* Lines 135-137 of profiles_save (the uid and changeset keys are present
\* whenever the guards of the handler have passed).
\* Clearing that forgets the changeset but keeps the token.
clear_pending_mutant(cs) == Del(cs, "changeset")

clear_pending(cs) == Del(Del(cs, "uid"), "changeset")

FreshCollectors == (GSETTINGS :> NewCollector) @@ (GOA :> NewCollector)

(***************************************************************************)
(* Profile store                                                           *)
(***************************************************************************)
NoIndex == [exists |-> FALSE, content |-> <<>>]

IndexOf(entries) == [exists |-> TRUE, content |-> entries]

\* An index check that writes the empty list whether or not the file exists.
check_for_profile_index_mutant(idx) == IndexOf(<<>>)

\* check_for_profile_index, when the write succeeds.
check_for_profile_index(idx) == IF idx.exists THEN idx ELSE IndexOf(<<>>)

\* A summary that does not carry the profile's id.
Summary_mutant(id, name) == [url |-> 0, displayName |-> name]

Summary(id, name) == [url |-> id, displayName |-> name]

\* The profile dict built by profiles_save.
Profile(uid, data, changeset) ==
    [uid |-> uid,
     name |-> data["profile-name"],
     description |-> data["profile-desc"],
     settings |-> [n \in DOMAIN changeset |-> get_settings(changeset[n])],
     applies_to |-> [users |-> applies_to(data["users"]),
                     groups |-> applies_to(data["groups"])],
     etag |-> "placeholder"]

\* list.remove(x): drops the first element equal to x.
RECURSIVE list_remove(_, _)
list_remove(l, x) ==
    IF l = <<>> THEN l
    ELSE IF Head(l) = x THEN Tail(l)
    ELSE <<Head(l)>> \o list_remove(Tail(l), x)

\* `for profile in index: if profile["url"] == uid: index.remove(profile)`:
\* the iterator keeps a position i into the list it is shrinking.
RECURSIVE RemoveLoop(_, _, _)
RemoveLoop(index, i, uid) ==
    IF i > Len(index) THEN index
    ELSE IF index[i].url = uid
         THEN RemoveLoop(list_remove(index, index[i]), i + 1, uid)
         ELSE RemoveLoop(index, i + 1, uid)

\* The delete loop that finds no entry to remove.
remove_from_index_mutant(index, uid) == index

remove_from_index(index, uid) == RemoveLoop(index, 1, uid)

(***************************************************************************)
(* AdminService handlers.  Each action is one request handled to its end.  *)
(***************************************************************************)
VNC_PORT == 5935

StoreVars == <<index_file, profile_files>>

SessionVars == <<current_session, collectors_by_name, vnc_websocket>>

session_start(body) ==
    /\ request' = Req("session_start", 0, "", body)
    /\ UNCHANGED <<routerVars, threadVars, StoreVars, uuid_clock>>
    /\ IF ~body.valid
       THEN /\ response' = Raised("ValueError")
            /\ UNCHANGED SessionVars
       ELSE IF already_started(current_session)
       THEN /\ response' = JSONResponse("session already started", 403)
            /\ UNCHANGED SessionVars
       ELSE IF Falsy(body)
       THEN /\ response' = JSONResponse("Request data was not a valid JSON object", 403)
            /\ UNCHANGED SessionVars
       ELSE IF ~Has(body.v, "host")
       THEN /\ response' = JSONResponse("no host was specified in POST request", 403)
            /\ UNCHANGED SessionVars
       ELSE \E remote \in StartOutcomes(body.v.host) :
            LET host == body.v.host
                outcome == remote
            IN /\ current_session' = start_session(current_session, host)
               /\ CASE outcome = "unreachable" ->
                         /\ response' = JSONResponse("could not connect to host", 403)
                         /\ UNCHANGED <<collectors_by_name, vnc_websocket>>
                    [] outcome = "raise" ->
                         /\ response' = Raised("RequestException")
                         /\ UNCHANGED <<collectors_by_name, vnc_websocket>>
                    [] OTHER ->
                         /\ vnc_websocket' = [running |-> TRUE, target_host |-> host,
                                              target_port |-> VNC_PORT]
                         /\ collectors_by_name' = FreshCollectors
                         /\ response' = JSONResponse("remote content",
                                            IF outcome = "ok" THEN 200 ELSE 500)

session_stop ==
    /\ request' = Req("session_stop", 0, "", InvalidBody)
    /\ UNCHANGED <<routerVars, threadVars, StoreVars, uuid_clock>>
    /\ IF ~HostSet(current_session)
       THEN /\ response' = JSONResponse("there was no session started", 403)
            /\ UNCHANGED SessionVars
       ELSE \E remote \in RemoteStopOutcomes :
            CASE remote = "notjson" ->      \* json.loads(req.content) raises
                   /\ response' = Raised("ValueError")
                   /\ UNCHANGED SessionVars
              [] remote = "raise" ->        \* a RequestException other than ConnectionError
                   /\ response' = Raised("RequestException")
                   /\ UNCHANGED SessionVars
              [] OTHER ->
                   /\ vnc_websocket' = [vnc_websocket EXCEPT !.running = FALSE]
                   /\ collectors_by_name' = EmptyDict
                   /\ current_session' = Del(current_session, "host")
                   /\ response' =
                        CASE remote = "unreachable" ->
                                 JSONResponse("could not connect to host", 403)
                          [] remote = "ok" -> JSONResponse("remote content", 200)
                          [] OTHER -> JSONResponse("remote content", 500)

changes ==
    /\ request' = Req("changes", 0, "", InvalidBody)
    /\ UNCHANGED <<routerVars, threadVars, StoreVars, uuid_clock, SessionVars>>
    /\ response' =
         IF Has(collectors_by_name, GSETTINGS)
         THEN [JSONResponse("", 200) EXCEPT
                  !.changes = dump_changes(collectors_by_name[GSETTINGS])]
         ELSE JSONResponse("", 403)

changes_select(body) ==
    /\ request' = Req("changes_select", 0, "", body)
    /\ UNCHANGED <<routerVars, threadVars, StoreVars, vnc_websocket>>
    /\ IF ~body.valid
       THEN /\ response' = Raised("ValueError")
            /\ UNCHANGED <<current_session, collectors_by_name, uuid_clock>>
       ELSE IF body.t # "dict"
       THEN /\ response' = JSONResponse("bad JSON data", 403)
            /\ UNCHANGED <<current_session, collectors_by_name, uuid_clock>>
       ELSE IF ~Has(body.v, "sel")
       THEN /\ response' = JSONResponse("bad_form_data", 403)
            /\ UNCHANGED <<current_session, collectors_by_name, uuid_clock>>
       ELSE IF ~Has(collectors_by_name, GSETTINGS)
       THEN /\ response' = JSONResponse("session was not started", 403)
            /\ UNCHANGED <<current_session, collectors_by_name, uuid_clock>>
       ELSE IF \E i \in 1..Len(body.v.sel) : ~IsInt(body.v.sel[i])
       THEN /\ response' = Raised("ValueError")
            /\ UNCHANGED <<current_session, collectors_by_name, uuid_clock>>
       ELSE LET selected_indices == {ParseInt(body.v.sel[i]) : i \in 1..Len(body.v.sel)}
                remembered == [collectors_by_name EXCEPT
                                  ![GSETTINGS] = remember_selected(@, selected_indices)]
                uid == uuid_clock + 1
                frozen == freeze(current_session, remembered, uid)
            IN /\ uuid_clock < MaxUid
               /\ uuid_clock' = uid
               /\ current_session' = frozen.session
               /\ collectors_by_name' = frozen.collectors
               /\ response' = [JSONResponse("ok", 200) EXCEPT !.uuid = uid]

changes_submit_name(name, change) ==
    /\ request' = Req("changes_submit_name", 0, name, InvalidBody)
    /\ UNCHANGED <<routerVars, threadVars, StoreVars, uuid_clock, current_session, vnc_websocket>>
    /\ IF Has(collectors_by_name, name)
       THEN /\ Len(collectors_by_name[name].changes) < MaxChanges
            /\ collectors_by_name' =
                 [collectors_by_name EXCEPT ![name] = handle_change(@, change)]
            /\ response' = JSONResponse("ok", 200)
       ELSE \* {"status": "..."} % name: a dict has no % operator
            /\ response' = Raised("TypeError")
            /\ UNCHANGED collectors_by_name

profiles_save(id, body) ==
    /\ request' = Req("profiles_save", id, "", body)
    /\ UNCHANGED <<routerVars, threadVars, uuid_clock, vnc_websocket>>
    /\ LET guard == save_guard(current_session, id) IN
       IF guard = "nonexistinguid"
       THEN /\ response' = TupleResult("nonexistinguid", 403)
            /\ UNCHANGED <<current_session, collectors_by_name, StoreVars>>
       ELSE IF guard = "no changeset"
       THEN /\ response' = TupleResult("change selection has not been submitted", 403)
            /\ UNCHANGED <<current_session, collectors_by_name, StoreVars>>
       ELSE IF ~body.valid
       THEN /\ response' = Raised("ValueError")
            /\ UNCHANGED <<current_session, collectors_by_name, StoreVars>>
       ELSE IF body.t # "dict"
       THEN /\ response' = TupleResult("JSON request is not an object", 403)
            /\ UNCHANGED <<current_session, collectors_by_name, StoreVars>>
       ELSE IF ~({"profile-name", "profile-desc", "groups", "users"} \subseteq DOMAIN body.v)
       THEN /\ response' = TupleResult("missing key(s) in profile settings request", 403)
            /\ UNCHANGED <<current_session, collectors_by_name, StoreVars>>
       ELSE \E disk \in SaveOutcomes(index_file) :
            IF disk = "fail_create_index"
            THEN \* the index can be neither created nor read
                 /\ response' = Raised("IOError")
                 /\ UNCHANGED <<current_session, collectors_by_name, StoreVars>>
            ELSE
            LET profile == Profile(current_session.uid, body.v, current_session.changeset)
                checked == check_for_profile_index(index_file)
                index == Append(checked.content, Summary(id, body.v["profile-name"]))
            IN /\ current_session' = clear_pending(current_session)
               /\ collectors_by_name' = EmptyDict
               /\ CASE disk = "fail_profile" ->
                         /\ response' = Raised("IOError")
                         /\ profile_files' = profile_files
                         /\ index_file' = checked
                    [] disk = "fail_index" ->
                         /\ response' = Raised("IOError")
                         /\ profile_files' = Put(profile_files, id, profile)
                         /\ index_file' = checked
                    [] OTHER ->
                         /\ response' = JSONResponse("ok", 200)
                         /\ profile_files' = Put(profile_files, id, profile)
                         /\ index_file' = IndexOf(index)

\* A guard that accepts any id while a token is pending.
discard_guard_mutant(cs, id) == Has(cs, "uid")

\* self.current_session.get('uid', None) == id
discard_guard(cs, id) == Has(cs, "uid") /\ cs.uid = id

profiles_discard(id) ==
    /\ request' = Req("profiles_discard", id, "", InvalidBody)
    /\ UNCHANGED <<routerVars, threadVars, StoreVars, uuid_clock, collectors_by_name, vnc_websocket>>
    /\ IF discard_guard(current_session, id)
       THEN /\ current_session' = clear_pending(current_session)
            /\ response' = JSONResponse("ok", 200)
       ELSE /\ response' = JSONResponse("profile not found", 403)
            /\ UNCHANGED current_session

profiles_delete(uid) ==
    /\ request' = Req("profiles_delete", uid, "", InvalidBody)
    /\ UNCHANGED <<routerVars, threadVars, uuid_clock, SessionVars>>
    /\ profile_files' = Del(profile_files, uid)
    /\ IF ~index_file.exists
       THEN /\ response' = Raised("IOError")
            /\ UNCHANGED index_file
       ELSE \E disk \in {"ok", "fail_index"} :
            IF disk # "ok"
            THEN /\ response' = Raised("IOError")
                 /\ UNCHANGED index_file
            ELSE /\ index_file' = IndexOf(remove_from_index(index_file.content, uid))
                 /\ response' = JSONResponse("ok", 200)

(***************************************************************************)
(* Requests in progress.  A thread is idle or between two steps of a       *)
(* handler, holding that call's arguments and local variables.             *)
(***************************************************************************)
Threads == {"t1", "t2"}

IdleThread ==
    [pc |-> "idle", id |-> 0, body |-> InvalidBody, index |-> <<>>, profile |-> <<>>]

(***************************************************************************)
(* AppRouter actions                                                       *)
(***************************************************************************)
\* AppRouter.add for one route.
add(route) ==
    /\ Len(routes) < MaxRoutes
    /\ routes' = Append(routes, route)
    /\ UNCHANGED <<find_request, find_result, adminVars>>

\* self.routes.find(request), as Phial.application calls it.
route_request(method, path) ==
    /\ find_request' = [method |-> method, path |-> path]
    /\ find_result' = find(routes, find_request')
    /\ UNCHANGED <<routes, adminVars>>

(***************************************************************************)
(* Specifications                                                          *)
(***************************************************************************)
Init ==
    /\ routes = <<>>
    /\ find_request = NoRequest
    /\ find_result = NoResult
    /\ current_session = EmptyDict
    /\ collectors_by_name = EmptyDict
    /\ vnc_websocket = [running |-> FALSE, target_host |-> None, target_port |-> 0]
    /\ index_file = NoIndex
    /\ profile_files = EmptyDict
    /\ uuid_clock = 0
    /\ request = NoReq
    /\ response = NoResponse
    /\ threads = [t \in Threads |-> IdleThread]
    /\ overlapped = FALSE

Next ==
    \/ \E body \in StartBodies : session_start(body)
    \/ session_stop
    \/ changes
    \/ \E body \in SelectBodies : changes_select(body)
    \/ \E name \in Namespaces, change \in Changes : changes_submit_name(name, change)
    \/ \E id \in Ids, body \in SaveBodies : profiles_save(id, body)
    \/ \E id \in Ids : profiles_discard(id)
    \/ \E uid \in Ids : profiles_delete(uid)

Spec == Init /\ [][Next]_vars

NextRouter ==
    \/ \E route \in RouteSet : add(route)
    \/ \E method \in Methods, path \in Paths : route_request(method, path)

SpecRouter == Init /\ [][NextRouter]_vars

(***************************************************************************)
(* Phial.application: what the dispatcher hands to the transport for the   *)
(* outcome of routing and of the handler call.                             *)
(***************************************************************************)
HTTP_RESPONSE_CODES == {200, 400, 401, 403, 404, 405, 500}

\* start_response(status, headers) was called with a status line for `code`.
Answered(code, body) == [propagated |-> FALSE, error |-> "", status |-> code, body |-> body]

\* An exception left application(): start_response was never called.
Propagated(what) == [propagated |-> TRUE, error |-> what, status |-> 0, body |-> ""]

\* Lines 257-263: the status line is built from response.status.
status_line(resp) ==
    IF resp.kind = "tuple" THEN Propagated("AttributeError")   \* a tuple has no .status
    ELSE IF resp.status \notin HTTP_RESPONSE_CODES THEN Propagated("KeyError")
    ELSE Answered(resp.status, resp.msg)

\* Lines 240-263 for a handler that was found and returned or raised `outcome`.
application(outcome) ==
    IF outcome.kind = "raise"
    THEN status_line([kind |-> "HttpResponse", status |-> 500, msg |-> "",
                      uuid |-> 0, changes |-> <<>>])
    ELSE status_line(outcome)

(***************************************************************************)
(* AdminService route table (admin.py 39-56) and the request path as       *)
(* Request.__init__ prepares it.  Strings are sequences of characters.     *)
(***************************************************************************)
s_static == <<"s", "t", "a", "t", "i", "c", "/">>

s_profiles == <<"p", "r", "o", "f", "i", "l", "e", "s", "/">>

s_save == <<"s", "a", "v", "e", "/">>

s_add == <<"a", "d", "d">>

s_delete == <<"d", "e", "l", "e", "t", "e", "/">>

s_discard == <<"d", "i", "s", "c", "a", "r", "d", "/">>

s_changes == <<"c", "h", "a", "n", "g", "e", "s">>

s_submit == <<"/", "s", "u", "b", "m", "i", "t", "/">>

s_select == <<"/", "s", "e", "l", "e", "c", "t">>

s_deploy == <<"d", "e", "p", "l", "o", "y", "/">>

s_session_start == <<"s", "e", "s", "s", "i", "o", "n", "/", "s", "t", "a", "r", "t">>

s_session_stop == <<"s", "e", "s", "s", "i", "o", "n", "/", "s", "t", "o", "p">>

s_id == <<"<", "i", "d", ">">>

s_uid == <<"<", "u", "i", "d", ">">>

Letters ==
    {"a", "b", "c", "d", "e", "f", "g", "h", "i", "j", "k", "l", "m",
     "n", "o", "p", "q", "r", "s", "t", "u", "v", "w", "x", "y", "z"}

Digits == {"0", "1", "2", "3", "4", "5", "6", "7", "8", "9"}

\* [-\w]
WordOrDash == Letters \cup Digits \cup {"_", "-"}

\* .  (every character of the modelled alphabet; none of them is a newline)
AnyChar == WordOrDash \cup {"/", "<", ">"}

\* The pattern elements of a literal string.
Lits(s) == [i \in 1..Len(s) |-> Lit(s[i])]

Route(pattern, methods, handler) ==
    [pattern |-> pattern, methods |-> methods, handler |-> handler]

AdminRoutes ==
    << Route(<<Bol>> \o Lits(s_static) \o <<Grp("path", AnyChar), Eol>>,
             {"GET"}, "serve_static"),
       Route(<<Bol>> \o Lits(s_profiles) \o <<Eol>>, {"GET"}, "profiles"),
       Route(<<Bol>> \o Lits(s_profiles \o s_save \o s_id), {"POST"}, "profiles_save"),
       Route(<<Bol>> \o Lits(s_profiles \o s_add) \o <<Eol>>, {"GET"}, "profiles_add"),
       Route(<<Bol>> \o Lits(s_profiles \o s_delete \o s_uid), {"GET"}, "profiles_delete"),
       Route(<<Bol>> \o Lits(s_profiles \o s_discard \o s_id), {"GET"}, "profiles_discard"),
       Route(<<Bol>> \o Lits(s_profiles) \o <<Grp("profile_id", WordOrDash), Eol>>,
             {"GET"}, "profiles_id"),
       Route(<<Bol>> \o Lits(s_changes), {"GET"}, "changes"),
       Route(<<Bol>> \o Lits(s_changes \o s_submit) \o <<Grp("name", WordOrDash), Eol>>,
             {"POST"}, "changes_submit_name"),
       Route(<<Bol>> \o Lits(s_changes \o s_select), {"POST"}, "changes_select"),
       Route(<<Bol>> \o Lits(s_deploy) \o <<Grp("name", WordOrDash), Eol>>,
             {"GET"}, "deploy"),
       Route(<<Bol>> \o Lits(s_session_start) \o <<Eol>>, {"POST"}, "session_start"),
       Route(<<Bol>> \o Lits(s_session_stop) \o <<Eol>>, {"GET"}, "session_stop"),
       Route(<<Bol, Eol>>, {"GET"}, "index") >>

\* str.lstrip('/')
RECURSIVE lstrip(_)
lstrip(s) == IF s # <<>> /\ Head(s) = "/" THEN lstrip(Tail(s)) ELSE s

\* Inputs: identifiers as a client puts them in a URL, and the URLs of the API.
IdChars == {"a", "7", "-"}

Identifiers == UNION {[1..n -> IdChars] : n \in 1..MaxIdLen}

IdPrefixes ==
    { s_profiles \o s_save, s_profiles \o s_delete, s_profiles \o s_discard,
      s_profiles, s_changes \o s_submit, s_deploy, s_static }

FixedPaths ==
    { <<>>, s_profiles, s_profiles \o s_add, s_changes, s_changes \o s_select,
      s_session_start, s_session_stop,
      s_profiles \o s_save \o s_id, s_profiles \o s_delete \o s_uid,
      s_profiles \o s_discard \o s_id }

PathInfos ==
    {<<"/">> \o p \o x : p \in IdPrefixes, x \in Identifiers}
        \cup {<<"/">> \o p : p \in FixedPaths}

\* Phial.application up to the routing: Request(environ), then routes.find.
application_find(method, path_info) ==
    /\ find_request' = [method |-> method, path |-> lstrip(path_info)]
    /\ find_result' = find(routes, find_request')
    /\ UNCHANGED <<routes, adminVars>>

\* The service after AdminService.__init__: the route table is registered.
InitAdmin ==
    /\ routes = AdminRoutes
    /\ find_request = NoRequest
    /\ find_result = NoResult
    /\ current_session = EmptyDict
    /\ collectors_by_name = EmptyDict
    /\ vnc_websocket = [running |-> FALSE, target_host |-> None, target_port |-> 0]
    /\ index_file = NoIndex
    /\ profile_files = EmptyDict
    /\ uuid_clock = 0
    /\ request = NoReq
    /\ response = NoResponse
    /\ threads = [t \in Threads |-> IdleThread]
    /\ overlapped = FALSE

NextAdmin ==
    \E method \in Methods, path_info \in PathInfos : application_find(method, path_info)

SpecAdmin == InitAdmin /\ [][NextAdmin]_vars

(***************************************************************************)
(* Listing and fetching profiles                                           *)
(***************************************************************************)
\* HttpResponse(content, status)
HttpResponse(msg, status) ==
    [kind |-> "HttpResponse", status |-> status, msg |-> msg, uuid |-> 0, changes |-> <<>>]

\* Phial.serve_static(self, request, path, mimetype=None) called with the
\* keyword arguments kwargs, for a path that exists or not under static_dir.
serve_static(kwargs, exists) ==
    IF ~(kwargs \subseteq {"mimetype"})
    THEN Raised("TypeError")             \* unexpected keyword argument
    ELSE IF ~exists THEN HttpResponse("Not found", 404)
    ELSE HttpResponse("filecontents", 200)

\* GET profiles/
profiles ==
    /\ request' = Req("profiles", 0, "", InvalidBody)
    /\ UNCHANGED <<routerVars, threadVars, uuid_clock, SessionVars, profile_files>>
    /\ \E disk \in (IF index_file.exists THEN {"ok"} ELSE {"ok", "fail_create_index"}) :
       IF disk = "fail_create_index"
       THEN \* open() raises IOError, which `except OSError` does not catch
            /\ response' = Raised("IOError")
            /\ UNCHANGED index_file
       ELSE /\ index_file' = check_for_profile_index(index_file)
            /\ \E exists \in BOOLEAN :
                   response' = serve_static({"basedir"}, exists)

\* GET profiles/<profile_id>
profiles_id(profile_id) ==
    /\ request' = Req("profiles_id", profile_id, "", InvalidBody)
    /\ UNCHANGED <<routerVars, threadVars, uuid_clock, SessionVars, StoreVars>>
    /\ \E exists \in BOOLEAN :
           response' = serve_static({"basedir"}, exists)

\* Every handler of the service that takes part in a profile's life.
NextService ==
    \/ Next
    \/ profiles
    \/ \E profile_id \in Ids : profiles_id(profile_id)

SpecService == Init /\ [][NextService]_vars

\* The last request ended in a failed write of index.json or of a profile
\* file.  (profiles_delete also raises IOError when it reads an index that
\* does not exist: that is no write.)
WriteFailed ==
    /\ response.kind = "raise"
    /\ response.msg = "IOError"
    /\ request.handler \in {"profiles_save", "profiles"} \/ index_file.exists

\* The service on a disk where every write succeeds.
NextNoWriteFailure ==
    \/ \E body \in StartBodies : session_start(body)
    \/ session_stop
    \/ changes
    \/ \E body \in SelectBodies : changes_select(body)
    \/ \E name \in Namespaces, change \in Changes : changes_submit_name(name, change)
    \/ \E id \in Ids, body \in SaveBodies : profiles_save(id, body) /\ ~WriteFailed'
    \/ \E id \in Ids : profiles_discard(id)
    \/ \E uid \in Ids : profiles_delete(uid) /\ ~WriteFailed'
    \/ profiles /\ ~WriteFailed'
    \/ \E profile_id \in Ids : profiles_id(profile_id)

SpecNoWriteFailure == Init /\ [][NextNoWriteFailure]_vars

(***************************************************************************)
(* The handlers that read, decide and then write, split where another      *)
(* thread's steps can fall between the read and the write.  A thread that  *)
(* runs both steps of a handler with no other thread in between does what  *)
(* the handler's single action does on a disk whose writes succeed.        *)
(***************************************************************************)
Busy(t) == threads[t].pc # "idle"

AllIdle == \A t \in Threads : ~Busy(t)

\* A new request goes to the first idle thread of the pool.
ThreadOrder == <<"t1", "t2">>

PicksUp(t) ==
    /\ ~Busy(t)
    /\ \A i, j \in 1..Len(ThreadOrder) :
           (ThreadOrder[i] = t /\ j < i) => Busy(ThreadOrder[j])

\* Thread t begins a request: was, or is now, another request in progress?
OverlapAtBegin(t) == overlapped \/ \E u \in Threads \ {t} : Busy(u)

\* changes_select, lines 182-191: the response of the guard that refuses the
\* request, NoResponse when none does.
select_refusal(body, colls) ==
    IF ~body.valid THEN Raised("ValueError")
    ELSE IF body.t # "dict" THEN JSONResponse("bad JSON data", 403)
    ELSE IF ~Has(body.v, "sel") THEN JSONResponse("bad_form_data", 403)
    ELSE IF ~Has(colls, GSETTINGS) THEN JSONResponse("session was not started", 403)
    ELSE IF \E i \in 1..Len(body.v.sel) : ~IsInt(body.v.sel[i]) THEN Raised("ValueError")
    ELSE NoResponse

\* changes_select, lines 182-195: the guards, then remember_selected.
select_begin(t, body) ==
    /\ PicksUp(t)
    /\ overlapped' = OverlapAtBegin(t)
    /\ UNCHANGED <<routerVars, StoreVars, vnc_websocket, current_session, uuid_clock>>
    /\ LET refusal == select_refusal(body, collectors_by_name) IN
       IF refusal # NoResponse
       THEN /\ request' = Req("changes_select", 0, "", body)
            /\ response' = refusal
            /\ UNCHANGED <<collectors_by_name, threads>>
       ELSE LET selected_indices == {ParseInt(body.v.sel[i]) : i \in 1..Len(body.v.sel)}
            IN /\ collectors_by_name' =
                      [collectors_by_name EXCEPT
                          ![GSETTINGS] = remember_selected(@, selected_indices)]
               /\ threads' = [threads EXCEPT
                                 ![t] = [IdleThread EXCEPT !.pc = "select_freeze",
                                                           !.body = body]]
               /\ UNCHANGED <<request, response>>

\* changes_select, lines 197-202: a fresh uid, the registry as it is now
\* copied into the session, the registry cleared.
select_freeze(t) ==
    /\ threads[t].pc = "select_freeze"
    /\ uuid_clock < MaxUid
    /\ LET uid == uuid_clock + 1
           frozen == freeze(current_session, collectors_by_name, uid)
       IN /\ uuid_clock' = uid
          /\ current_session' = frozen.session
          /\ collectors_by_name' = frozen.collectors
          /\ request' = Req("changes_select", 0, "", threads[t].body)
          /\ response' = [JSONResponse("ok", 200) EXCEPT !.uuid = uid]
    /\ threads' = [threads EXCEPT ![t] = IdleThread]
    /\ UNCHANGED <<routerVars, StoreVars, vnc_websocket, overlapped>>

\* profiles_save, lines 96-109: the response of the guard that refuses the
\* request, NoResponse when none does.
save_refusal(cs, id, body) ==
    IF save_guard(cs, id) = "nonexistinguid" THEN TupleResult("nonexistinguid", 403)
    ELSE IF save_guard(cs, id) = "no changeset"
    THEN TupleResult("change selection has not been submitted", 403)
    ELSE IF ~body.valid THEN Raised("ValueError")
    ELSE IF body.t # "dict" THEN TupleResult("JSON request is not an object", 403)
    ELSE IF ~({"profile-name", "profile-desc", "groups", "users"} \subseteq DOMAIN body.v)
    THEN TupleResult("missing key(s) in profile settings request", 403)
    ELSE NoResponse

\* profiles_save, lines 93-133: the guards, the profile built from the
\* session, the index created if absent, read and extended in memory.
save_begin(t, id, body) ==
    /\ PicksUp(t)
    /\ overlapped' = OverlapAtBegin(t)
    /\ UNCHANGED <<routerVars, SessionVars, uuid_clock, profile_files>>
    /\ LET refusal == save_refusal(current_session, id, body) IN
       IF refusal # NoResponse
       THEN /\ request' = Req("profiles_save", id, "", body)
            /\ response' = refusal
            /\ UNCHANGED <<index_file, threads>>
       ELSE LET checked == check_for_profile_index(index_file) IN
            /\ index_file' = checked
            /\ threads' = [threads EXCEPT ![t] =
                   [pc |-> "save_write", id |-> id, body |-> body,
                    index |-> Append(checked.content,
                                     Summary(id, body.v["profile-name"])),
                    profile |-> Profile(current_session.uid, body.v,
                                        current_session.changeset)]]
            /\ UNCHANGED <<request, response>>

\* profiles_save, lines 135-142: the pending state deleted, then both files
\* written from what the thread holds.
save_write(t) ==
    /\ threads[t].pc = "save_write"
    /\ request' = Req("profiles_save", threads[t].id, "", threads[t].body)
    /\ threads' = [threads EXCEPT ![t] = IdleThread]
    /\ UNCHANGED <<routerVars, uuid_clock, vnc_websocket, overlapped>>
    /\ IF ~Has(current_session, "uid")
       THEN \* del(self.current_session["uid"]) of a key already deleted
            /\ response' = Raised("KeyError")
            /\ UNCHANGED <<current_session, collectors_by_name, StoreVars>>
       ELSE IF ~Has(current_session, "changeset")
       THEN /\ response' = Raised("KeyError")
            /\ current_session' = Del(current_session, "uid")
            /\ UNCHANGED <<collectors_by_name, StoreVars>>
       ELSE /\ current_session' = clear_pending(current_session)
            /\ collectors_by_name' = EmptyDict
            /\ profile_files' = Put(profile_files, threads[t].id, threads[t].profile)
            /\ index_file' = IndexOf(threads[t].index)
            /\ response' = JSONResponse("ok", 200)

\* profiles_delete, lines 148-156: the file removed, the index read.
delete_begin(t, uid) ==
    /\ PicksUp(t)
    /\ overlapped' = OverlapAtBegin(t)
    /\ profile_files' = Del(profile_files, uid)
    /\ UNCHANGED <<routerVars, SessionVars, uuid_clock, index_file>>
    /\ IF ~index_file.exists
       THEN /\ request' = Req("profiles_delete", uid, "", InvalidBody)
            /\ response' = Raised("IOError")
            /\ UNCHANGED threads
       ELSE /\ threads' = [threads EXCEPT ![t] =
                   [IdleThread EXCEPT !.pc = "delete_write", !.id = uid,
                                      !.index = index_file.content]]
            /\ UNCHANGED <<request, response>>

\* profiles_delete, lines 157-162: the entries removed from the list the
\* thread read, and that list written back.
delete_write(t) ==
    /\ threads[t].pc = "delete_write"
    /\ index_file' = IndexOf(remove_from_index(threads[t].index, threads[t].id))
    /\ request' = Req("profiles_delete", threads[t].id, "", InvalidBody)
    /\ response' = JSONResponse("ok", 200)
    /\ threads' = [threads EXCEPT ![t] = IdleThread]
    /\ UNCHANGED <<routerVars, SessionVars, uuid_clock, profile_files, overlapped>>

\* Well-formed request bodies: what a refused request does is one step.
WellFormed(bodies, keys) ==
    {b \in bodies : b.valid /\ b.t = "dict" /\ keys \subseteq DOMAIN b.v}

\* Requests served by threads that may interleave inside changes_select,
\* profiles_save and profiles_delete; the other handlers run between requests.
NextInterleaved ==
    \/ \E body \in {Dict([host |-> "h1"])} : AllIdle /\ session_start(body)
    \/ AllIdle /\ session_stop
    \/ \E name \in {GSETTINGS}, change \in Changes :
           AllIdle /\ changes_submit_name(name, change)
    \/ \E id \in Ids : AllIdle /\ profiles_discard(id)
    \/ \E t \in Threads, body \in WellFormed(SelectBodies, {"sel"}) :
           select_begin(t, body)
    \/ \E t \in Threads : select_freeze(t)
    \/ \E t \in Threads, id \in Ids,
          body \in WellFormed(SaveBodies, {"profile-name", "profile-desc"}) :
           save_begin(t, id, body)
    \/ \E t \in Threads : save_write(t)
    \/ \E t \in Threads, uid \in Ids : delete_begin(t, uid)
    \/ \E t \in Threads : delete_write(t)

SpecInterleaved == Init /\ [][NextInterleaved]_vars

(***************************************************************************)
(* profiles_delete on a profiles directory as it may be found on disk:     *)
(* index.json is any list of summaries, with a file for each uid it names. *)
(***************************************************************************)
Summaries == {Summary(id, name) : id \in Ids, name \in {"n1", "n2"}}

IndexContents == UNION {[1..n -> Summaries] : n \in 0..MaxIndexLen}

\* The file <uid>.json of a profile saved from a session with no changes.
StoredProfile(uid) ==
    Profile(uid,
            (CHOOSE b \in WellFormed(SaveBodies, {"profile-name", "profile-desc"}) : TRUE).v,
            FreshCollectors)

InitStore ==
    /\ routes = <<>>
    /\ find_request = NoRequest
    /\ find_result = NoResult
    /\ current_session = EmptyDict
    /\ collectors_by_name = EmptyDict
    /\ vnc_websocket = [running |-> FALSE, target_host |-> None, target_port |-> 0]
    /\ index_file \in {IndexOf(entries) : entries \in IndexContents}
    /\ profile_files =
           [uid \in {index_file.content[i].url : i \in 1..Len(index_file.content)}
               |-> StoredProfile(uid)]
    /\ uuid_clock = 0
    /\ request = NoReq
    /\ response = NoResponse
    /\ threads = [t \in Threads |-> IdleThread]
    /\ overlapped = FALSE

NextStore == \E uid \in Ids : profiles_delete(uid)

SpecStore == InitStore /\ [][NextStore]_vars

(***************************************************************************)
(* Properties                                                              *)
(***************************************************************************)
Min(S) == CHOOSE x \in S : \A y \in S : x <= y

Pending(cs) == Has(cs, "uid") \/ Has(cs, "changeset")

Succeeded(resp) == resp.kind = "JSONResponse" /\ resp.status = 200

\* A start request whose body is a JSON object naming a host: start(host).
IsStart(req) ==
    /\ req.handler = "session_start"
    /\ req.body.valid /\ req.body.t = "dict" /\ Has(req.body.v, "host")

\* A select request whose body is a JSON object with a "sel" list.
IsSelect(req) ==
    /\ req.handler = "changes_select"
    /\ req.body.valid /\ req.body.t = "dict" /\ Has(req.body.v, "sel")

\* The start reached the remote host and completed the transition.
StartCompleted(req, resp) ==
    req.handler = "session_start" /\ resp.kind = "JSONResponse" /\ resp.msg = "remote content"

\* The indices of the routes whose pattern matches the path of req.
MatchingRoutes(rts, req) == {i \in 1..Len(rts) : match(rts[i].pattern, req.path).ok}

FirstMatch(rts, req, res) ==
    LET M == MatchingRoutes(rts, req) IN
    /\ (res.code = 404) <=> (M = {})
    /\ M # {} =>
         LET r == rts[Min(M)] IN
         IF req.method \notin r.methods
         THEN res.code = 405 /\ res.handler = None
         ELSE /\ res.code = 0
              /\ res.handler = r.handler
              /\ res.parms = match(r.pattern, req.path).groups

\* C1: resolve() answers by the first route, in registration order, whose
\* pattern matches the path: 405 when that route does not allow the method
\* (whatever later routes allow), otherwise its handler and named groups; 404
\* exactly when no pattern matches.
C1_FirstMatchResolution ==
    [][find_request' # find_request \/ find_result' # find_result
          => FirstMatch(routes', find_request', find_result')]_vars

\* A 405 given although a later route matches the path and allows the method.
C1_Witness ==
    /\ find_result.code = 405
    /\ \E j \in MatchingRoutes(routes, find_request) :
           find_request.method \in routes[j].methods

\* C2: the collector registry is never non-empty while a pending uid or
\* changeset exists.
C2_LiveOrPending == ~(DOMAIN collectors_by_name # {} /\ Pending(current_session))

\* A session started again after an earlier changeset had been frozen.
C2_Witness ==
    /\ uuid_clock >= 1
    /\ DOMAIN collectors_by_name # {}
    /\ StartCompleted(request, response)

\* C3: after a successful saveProfile or discardChangeset the session is Idle:
\* no host, no collectors, no pending uid or changeset.
C3_IdleAfterSaveOrDiscard ==
    (request.handler \in {"profiles_save", "profiles_discard"} /\ Succeeded(response))
        => /\ ~Has(current_session, "host")
           /\ collectors_by_name = EmptyDict
           /\ ~Pending(current_session)

\* C4: after a stop request that returned, no pending uid or changeset remains.
C4_StopClearsPending ==
    (request.handler = "session_stop" /\ response.kind # "raise")
        => ~Pending(current_session)

\* C5: a saveProfile issued while nothing is pending is answered with the
\* "no changeset" error, never with the error of a mismatched id.
C5_DistinctSaveErrors ==
    (request.handler = "profiles_save" /\ response.status = 403
        /\ ~Pending(current_session))
        => response.msg = "change selection has not been submitted"

\* C6: a start that cannot connect to the host leaves the host unset and the
\* registry empty.
C6_StartAbortsOnConnectionError ==
    (request.handler = "session_start" /\ response.msg = "could not connect to host")
        => /\ ~HostSet(current_session)
           /\ collectors_by_name = EmptyDict

\* C7: start(host) with no host set and a reachable remote sets the host and
\* creates exactly the gsettings and online-accounts collectors; while a host
\* is set, start(host) is answered 403 "session already started" and changes
\* nothing; and a host, once set, is unset only by a stop.
C7_StartOnlyWithoutHost ==
    [][/\ IsStart(request') =>
            IF HostSet(current_session)
            THEN /\ response' = JSONResponse("session already started", 403)
                 /\ UNCHANGED <<current_session, collectors_by_name, vnc_websocket,
                                index_file, profile_files, uuid_clock>>
            ELSE StartCompleted(request', response') =>
                     /\ HostSet(current_session')
                     /\ current_session'.host = request'.body.v.host
                     /\ collectors_by_name' = FreshCollectors
                     /\ DOMAIN collectors_by_name' = {GSETTINGS, GOA}
       /\ (HostSet(current_session) /\ ~HostSet(current_session'))
              => request'.handler = "session_stop"]_vars

\* A second start, for another host, rejected while the collectors are live.
C7_Witness ==
    /\ IsStart(request)
    /\ response = JSONResponse("session already started", 403)
    /\ request.body.v.host # current_session.host
    /\ DOMAIN collectors_by_name = {GSETTINGS, GOA}

\* C8: a select issued while the gsettings collector is live succeeds with a
\* uid never given out before, stores the whole registry (every namespace) as
\* the changeset under that uid and empties the live registry; while the
\* registry is empty GET /changes answers 403 and select answers "session was
\* not started"; and only a start that completes fills the registry again.
C8_SelectFreezes ==
    [][/\ (IsSelect(request') /\ Has(collectors_by_name, GSETTINGS)
             /\ \A i \in 1..Len(request'.body.v.sel) : IsInt(request'.body.v.sel[i]))
            => /\ Succeeded(response')
               /\ response'.uuid \notin 1..uuid_clock
               /\ current_session'.uid = response'.uuid
               /\ DOMAIN current_session'.changeset = DOMAIN collectors_by_name
               /\ \A n \in DOMAIN collectors_by_name :
                      current_session'.changeset[n].changes
                          = collectors_by_name[n].changes
               /\ collectors_by_name' = EmptyDict
       /\ (collectors_by_name = EmptyDict /\ request'.handler = "changes")
            => response'.status = 403
       /\ (collectors_by_name = EmptyDict /\ IsSelect(request'))
            => response' = JSONResponse("session was not started", 403)
       /\ (collectors_by_name = EmptyDict /\ collectors_by_name' # EmptyDict)
            => StartCompleted(request', response')]_vars

\* A further select refused while the frozen changeset is pending.
C8_Witness ==
    /\ IsSelect(request)
    /\ response = JSONResponse("session was not started", 403)
    /\ Has(current_session, "changeset")
    /\ DOMAIN current_session.changeset = {GSETTINGS, GOA}

\* C9: a submit for a namespace with no active collector is answered with a
\* 403 response.
C9_SubmitInactiveIs403 ==
    (request.handler = "changes_submit_name" /\ ~Has(collectors_by_name, request.name))
        => (response.kind = "JSONResponse" /\ response.status = 403)

\* C10: a stop issued while a host is set clears the host and the registry,
\* whatever the remote stop call does.
C10_StopCleanupUnconditional ==
    [][(request'.handler = "session_stop" /\ HostSet(current_session))
          => (~Has(current_session', "host") /\ collectors_by_name' = EmptyDict)]_vars

\* C11: whatever the handler returned or raised, application() answers with a
\* status line and lets no exception through; a handler that raised is
\* answered 500 with an empty body.
C11_DispatcherNeverPropagates ==
    request.handler # None =>
        /\ ~application(response).propagated
        /\ response.kind = "raise" =>
               (application(response).status = 500 /\ application(response).body = "")

\* C12: with the AdminService route table, POST changes/select is resolved to
\* changes_select and POST changes/submit/<name> to changes_submit_name with
\* that name; no earlier route answers them 404 or 405.
C12_ChangesPostsResolved ==
    find_request.method = "POST" =>
        /\ find_request.path = s_changes \o s_select =>
               find_result.handler = "changes_select"
        /\ \A x \in Identifiers :
               find_request.path = s_changes \o s_submit \o x =>
                   /\ find_result.handler = "changes_submit_name"
                   /\ find_result.parms = {<<"name", x>>}

\* C13: for every identifier X, POST profiles/save/X, GET profiles/discard/X
\* and GET profiles/delete/X are resolved to the save, discard and delete
\* handlers with X as the id (uid) parameter.
C13_ProfileRoutesTakeIdentifier ==
    \A x \in Identifiers :
        /\ (find_request.method = "POST" /\ find_request.path = s_profiles \o s_save \o x) =>
               (find_result.handler = "profiles_save" /\ find_result.parms = {<<"id", x>>})
        /\ (find_request.method = "GET" /\ find_request.path = s_profiles \o s_discard \o x) =>
               (find_result.handler = "profiles_discard" /\ find_result.parms = {<<"id", x>>})
        /\ (find_request.method = "GET" /\ find_request.path = s_profiles \o s_delete \o x) =>
               (find_result.handler = "profiles_delete" /\ find_result.parms = {<<"uid", x>>})

\* C14: profiles_delete for a uid that has no profile file is a successful
\* no-op in every store state, the index not yet created included: it answers
\* 200 ok, the index has no entry for the uid, and every other profile and
\* index entry is untouched.
C14_DeleteMissingIsNoOp ==
    [][(request'.handler = "profiles_delete" /\ ~Has(profile_files, request'.id)) =>
          /\ Succeeded(response')
          /\ profile_files' = profile_files
          /\ index_file'.content =
                 SelectSeq(index_file.content, LAMBDA e : e.url # request'.id)]_vars

\* C15: a successful profiles_save(id, payload) stores a profile whose uid is
\* id, whose name and description are the payload's profile-name and
\* profile-desc and whose settings have one entry per namespace of the frozen
\* changeset (that namespace's export); fetching profiles/<id> afterwards
\* answers 200 with that stored profile.
C15_SaveFetchRoundTrip ==
    [][/\ (request'.handler = "profiles_save" /\ Succeeded(response')) =>
              LET id == request'.id
                  data == request'.body.v
                  changeset == current_session.changeset
              IN /\ Has(profile_files', id)
                 /\ profile_files'[id].uid = id
                 /\ profile_files'[id].name = data["profile-name"]
                 /\ profile_files'[id].description = data["profile-desc"]
                 /\ DOMAIN profile_files'[id].settings = DOMAIN changeset
                 /\ \A n \in DOMAIN changeset :
                        profile_files'[id].settings[n] = get_settings(changeset[n])
       /\ (/\ request'.handler = "profiles_id"
           /\ Has(profile_files, request'.id)
           /\ \E i \in 1..Len(index_file.content) :
                  index_file.content[i].url = request'.id) =>
              (response'.kind = "HttpResponse" /\ response'.status = 200)]_vars

\* The entries of index.json whose url is uid.
EntriesFor(uid) == {i \in 1..Len(index_file.content) : index_file.content[i].url = uid}

\* C16: starting from an empty store, with requests handled one at a time and
\* no write failing, after every request the index and the profile files
\* agree: every index entry names a profile that has a file, and every profile
\* file has exactly one index entry.
C16_IndexAgreesWithFiles ==
    /\ \A i \in 1..Len(index_file.content) :
           Has(profile_files, index_file.content[i].url)
    /\ \A uid \in DOMAIN profile_files : Cardinality(EntriesFor(uid)) = 1

\* A delete was answered ok and left exactly the other profile, with its entry.
C16_Witness ==
    /\ request.handler = "profiles_delete"
    /\ Succeeded(response)
    /\ Len(index_file.content) = 1
    /\ index_file.content[1].url # request.id
    /\ DOMAIN profile_files = {index_file.content[1].url}

C18_DiscardGuardAndFrame ==
    [][request'.handler = "profiles_discard" =>
          /\ UNCHANGED <<index_file, profile_files>>
          /\ IF Has(current_session, "uid") /\ Has(current_session, "changeset")
                  /\ current_session.uid = request'.id
             THEN Succeeded(response')
             ELSE /\ response' = JSONResponse("profile not found", 403)
                  /\ UNCHANGED <<current_session, collectors_by_name,
                                 vnc_websocket, uuid_clock>>]_vars

\* A discard with another id than the pending token was refused.
C18_Witness ==
    /\ request.handler = "profiles_discard"
    /\ response = JSONResponse("profile not found", 403)
    /\ Has(current_session, "uid")
    /\ current_session.uid # request.id

\* C19: check_for_profile_index is idempotent and non-destructive: it leaves
\* an existing index as it is, creates the empty index only when there is
\* none, and a second call changes nothing the first call left.
C19_EnsureIndexIdempotent ==
    [][request'.handler = "profiles" =>
          /\ index_file.exists => index_file' = index_file
          /\ ~index_file.exists => index_file' = IndexOf(<<>>)
          /\ check_for_profile_index(index_file') = index_file']_vars

\* The index was checked while it listed a profile.
C19_Witness ==
    /\ request.handler = "profiles"
    /\ index_file.exists
    /\ Len(index_file.content) >= 1

\* C20: the pending token and changeset are not cleared before both files are
\* written: a profiles_save that fails while writing a file leaves the
\* changeset pending under the same id, so that the save can be retried.
C20_FailedSaveStaysPending ==
    (request.handler = "profiles_save" /\ WriteFailed) =>
        /\ Has(current_session, "uid")
        /\ current_session.uid = request.id
        /\ Has(current_session, "changeset")

\* C21: when the steps of two requests interleave, a state is reached, with
\* every request completed, in which the index and the profile files disagree
\* or a token is pending with an empty changeset; as long as no request was
\* begun while another was in progress, no completed state is like that.
C21_SerialRequestsLeaveNoBadState ==
    (AllIdle /\ ~overlapped) =>
        /\ \A i \in 1..Len(index_file.content) :
               Has(profile_files, index_file.content[i].url)
        /\ \A uid \in DOMAIN profile_files : EntriesFor(uid) # {}
        /\ Has(current_session, "uid") => ~NoChangeset(current_session)

\* Both requests of an interleaved save and delete have completed, the delete
\* last, and a profile file is left without an index entry.
C21_Witness ==
    /\ AllIdle
    /\ overlapped
    /\ request.handler = "profiles_delete"
    /\ Succeeded(response)
    /\ \E uid \in DOMAIN profile_files : EntriesFor(uid) = {}

\* C22: for every index content, with the uid listed more than once or in
\* adjacent positions included, the index a successful profiles_delete(uid)
\* writes back has no entry for uid and has every other entry once, in its
\* original order.
C22_DeleteRemovesEveryMatch ==
    [][(request'.handler = "profiles_delete" /\ Succeeded(response')) =>
          index_file'.content =
              SelectSeq(index_file.content, LAMBDA e : e.url # request'.id)]_vars

====
